---------------------------- MODULE Spec2Model ----------------------------
(* avifImageScale (src/scale.c): in-place rescale of the planes of an      *)
(* avifImage.  The function is modelled statement group by statement       *)
(* group; pc is the position inside the function.  Spec is the build with  *)
(* AVIF_LIBYUV_ENABLED, SpecNoLibyuv the build without it.                  *)
EXTENDS Integers, Sequences, FiniteSets, TLC

(***************************************************************************)
(* uint32_t.  TLC integers are 32-bit signed, so a uint32_t value v is     *)
(* held as the pair <<v \div 2^16, v % 2^16>> and every operation is       *)
(* computed on the halves, modulo 2^32.                                    *)
(***************************************************************************)
Half == 65536

U32(n) == <<n \div Half, n % Half>>

UINT32_MAX == <<Half - 1, Half - 1>>

IsZero(a) == a = <<0, 0>>

LtU32(a, b) == a[1] < b[1] \/ (a[1] = b[1] /\ a[2] < b[2])

GtU32(a, b) == LtU32(b, a)

\* a + s (mod 2^32), for a small addend s
AddU32(a, s) ==
    LET lo == a[2] + s
    IN  <<(a[1] + (lo \div Half)) % Half, lo % Half>>

\* a >> s, for s in 0..15
ShrU32(a, s) ==
    LET p == 2 ^ s
    IN  <<a[1] \div p, (a[2] \div p) + (a[1] % p) * (Half \div p)>>

\* a << 1 (mod 2^32)
Shl1U32(a) ==
    LET lo == 2 * a[2]
    IN  <<(2 * a[1] + (lo \div Half)) % Half, lo % Half>>

\* a / b, unsigned, b # 0.  a = 2*t + e with t < 2^31; for b < 2^31 the
\* quotient is 2*(t \div b) + [2*(t % b) + e >= b], for b >= 2^31 it is 0 or 1.
DivU32(a, b) ==
    LET t == a[1] * (Half \div 2) + (a[2] \div 2)
        e == a[2] % 2
    IN  IF b[1] >= Half \div 2
        THEN (IF LtU32(a, b) THEN U32(0) ELSE U32(1))
        ELSE LET d == b[1] * Half + b[2]
                 q == t \div d
                 r == t % d
                 c == IF r + e >= d - r THEN 1 ELSE 0
             IN  <<q \div (Half \div 2), (q % (Half \div 2)) * 2 + c>>

\* The unbounded product w * h, as eight base-256 digits, least first.
Digits(a) == <<a[2] % 256, a[2] \div 256, a[1] % 256, a[1] \div 256>>

Term(x, y, i, k) == IF k - i \in 0 .. 3 THEN x[i + 1] * y[k - i + 1] ELSE 0

ColSum(x, y, k) == Term(x, y, 0, k) + Term(x, y, 1, k) + Term(x, y, 2, k) + Term(x, y, 3, k)

RECURSIVE ProductDigits(_, _, _, _)
ProductDigits(x, y, k, carry) ==
    IF k = 8 THEN <<>>
    ELSE LET t == ColSum(x, y, k) + carry
         IN  <<t % 256>> \o ProductDigits(x, y, k + 1, t \div 256)

\* a * b (mod 2^32): the low four digits of the product
MulU32(a, b) ==
    LET p == ProductDigits(Digits(a), Digits(b), 0, 0)
    IN  <<p[4] * 256 + p[3], p[2] * 256 + p[1]>>

(***************************************************************************)
(* Inputs.  Dimensions and limits are uint32_t values.                     *)
(***************************************************************************)
SrcWidths == {U32(7), U32(16384), U32(16385)}

SrcHeights == {U32(5), U32(16385)}

DstDims == {U32(0), U32(1), U32(5), U32(7), U32(100), UINT32_MAX}

Limits == {U32(9999), U32(10000), UINT32_MAX}

Depths == {8, 10}

Formats == {"YUV444", "YUV422", "YUV420", "YUV400"}

NULL == 0

AVIF_PLANE_COUNT_YUV == 3

AVIF_CHAN_Y == 0

Chans == 0 .. (AVIF_PLANE_COUNT_YUV - 1)

\* Buffers the image refers to before the call: Y, U, V, alpha.
YUVBuffer(i) == i + 1

AlphaBuffer == AVIF_PLANE_COUNT_YUV + 1

FirstFreshBuffer == AlphaBuffer + 1

\* Every buffer a behaviour can name: the four of the image and one fresh
\* buffer for each of them.
Buffers == 1 .. (2 * AlphaBuffer)

(***************************************************************************)
(* Collaborators outside scale.c.                                          *)
(***************************************************************************)
\* avifGetPixelFormatInfo: the chroma shifts of a pixel format.
ChromaShiftX(fmt) == IF fmt = "YUV444" THEN 0 ELSE 1

ChromaShiftY(fmt) == IF fmt \in {"YUV444", "YUV422"} THEN 0 ELSE 1

\* A chroma plane dimension, as lines 91-94 compute it in uint32_t.
ChromaDim(dim, shift) == ShrU32(AddU32(dim, shift), shift)

\* Bytes per row of a plane of the given width (one or two bytes a sample).
RowBytes(width, depth) == IF depth > 8 THEN Shl1U32(width) ELSE width

PlaneWidth(img, i) ==
    IF i = AVIF_CHAN_Y THEN img.width
    ELSE ChromaDim(img.width, ChromaShiftX(img.yuvFormat))

\* The planes a pixel format has: monochrome has luma only.
HasChan(fmt, i) == i = AVIF_CHAN_Y \/ fmt # "YUV400"

\* avifImageAllocatePlanes(image, AVIF_PLANES_YUV): a fresh buffer, sized for
\* the image's current dimensions, for every absent plane of the format; the
\* image owns them.  first is the first unused buffer.
AllocateYUV(img, first) ==
    [img EXCEPT
        !.yuvPlanes = [i \in Chans |->
            IF HasChan(img.yuvFormat, i) /\ img.yuvPlanes[i] = NULL
            THEN first + i ELSE img.yuvPlanes[i]],
        !.yuvRowBytes = [i \in Chans |->
            IF HasChan(img.yuvFormat, i) /\ img.yuvPlanes[i] = NULL
            THEN RowBytes(PlaneWidth(img, i), img.depth) ELSE img.yuvRowBytes[i]],
        !.imageOwnsYUVPlanes = TRUE]

\* avifImageAllocatePlanes(image, AVIF_PLANES_A)
AllocateAlpha(img, first) ==
    [img EXCEPT
        !.alphaPlane = IF img.alphaPlane = NULL THEN first ELSE img.alphaPlane,
        !.alphaRowBytes = IF img.alphaPlane = NULL
                          THEN RowBytes(img.width, img.depth) ELSE img.alphaRowBytes,
        !.imageOwnsAlphaPlane = TRUE]

(***************************************************************************)
(* State.                                                                  *)
(***************************************************************************)
VARIABLES
    image,      \* the avifImage
    args,       \* dstWidth, dstHeight, imageSizeLimit of the call
    loc,        \* the locals of avifImageScale
    pc,         \* position in avifImageScale
    result,     \* the returned avifBool, "none" before the return
    diag,       \* the message given to avifDiagnosticsPrintf, "" if none
    released,   \* how often avifFree was called on each buffer
    log,        \* the calls made to the allocator, libyuv and avifFree
    nextBuf,    \* the next buffer the allocator hands out
    entry       \* the image as it was when avifImageScale was called

vars == <<image, args, loc, pc, result, diag, released, log, nextBuf, entry>>

NoArgs == [dstWidth |-> U32(0), dstHeight |-> U32(0), imageSizeLimit |-> U32(0)]

NoLocals ==
    [srcYUVPlanes |-> [i \in Chans |-> NULL],
     srcYUVRowBytes |-> [i \in Chans |-> U32(0)],
     srcImageOwnsYUVPlanes |-> FALSE,
     srcAlphaPlane |-> NULL,
     srcAlphaRowBytes |-> U32(0),
     srcImageOwnsAlphaPlane |-> FALSE,
     srcWidth |-> U32(0),
     srcHeight |-> U32(0),
     srcUVWidth |-> U32(0),
     srcUVHeight |-> U32(0),
     dstUVWidth |-> U32(0),
     dstUVHeight |-> U32(0),
     i |-> 0]

\* An image the caller can pass: the planes of its format present together
\* or not at all, alpha independent, every buffer distinct, rows as wide as
\* the plane, and either ownership flag set or not.
ValidImage(w, h, d, fmt, hasYUV, hasAlpha, ownsYUV, ownsAlpha) ==
    LET dims == [width |-> w, yuvFormat |-> fmt]
    IN  [width |-> w,
         height |-> h,
         depth |-> d,
         yuvFormat |-> fmt,
         yuvPlanes |-> [i \in Chans |->
             IF hasYUV /\ HasChan(fmt, i) THEN YUVBuffer(i) ELSE NULL],
         yuvRowBytes |-> [i \in Chans |->
             IF hasYUV /\ HasChan(fmt, i)
             THEN RowBytes(PlaneWidth(dims, i), d) ELSE U32(0)],
         imageOwnsYUVPlanes |-> ownsYUV,
         alphaPlane |-> IF hasAlpha THEN AlphaBuffer ELSE NULL,
         alphaRowBytes |-> IF hasAlpha THEN RowBytes(w, d) ELSE U32(0),
         imageOwnsAlphaPlane |-> ownsAlpha]

Images ==
    {ValidImage(w, h, d, fmt, hasYUV, hasAlpha, ownsYUV, ownsAlpha) :
        w \in SrcWidths, h \in SrcHeights, d \in Depths, fmt \in Formats,
        hasYUV \in BOOLEAN, hasAlpha \in BOOLEAN,
        ownsYUV \in BOOLEAN, ownsAlpha \in BOOLEAN}

Init ==
    /\ image \in Images
    /\ entry = image
    /\ args = NoArgs
    /\ loc = NoLocals
    /\ pc = "idle"
    /\ result = "none"
    /\ diag = ""
    /\ released = [b \in Buffers |-> 0]
    /\ log = <<>>
    /\ nextBuf = FirstFreshBuffer

(***************************************************************************)
(* The calls avifImageScale makes, as they are recorded in log.            *)
(***************************************************************************)
PlaneName(i) == <<"Y", "U", "V">>[i + 1]

NoCall ==
    [op |-> "", plane |-> "", bits |-> 0,
     src |-> NULL, srcStride |-> U32(0), srcW |-> U32(0), srcH |-> U32(0),
     dst |-> NULL, dstStride |-> U32(0), dstW |-> U32(0), dstH |-> U32(0)]

\* avifImageAllocatePlanes(image, planes): dstW, dstH are the image's
\* declared dimensions at the call.
AllocCall(planes, img) ==
    [NoCall EXCEPT !.op = "alloc", !.plane = planes,
                   !.dstW = img.width, !.dstH = img.height]

\* ScalePlane (bits = 8) or ScalePlane_16 (bits = 16)
ScaleCall(plane, bits, src, srcStride, srcW, srcH, dst, dstStride, dstW, dstH) ==
    [op |-> "scale", plane |-> plane, bits |-> bits,
     src |-> src, srcStride |-> srcStride, srcW |-> srcW, srcH |-> srcH,
     dst |-> dst, dstStride |-> dstStride, dstW |-> dstW, dstH |-> dstH]

\* avifFree(buf)
FreeCall(plane, buf) == [NoCall EXCEPT !.op = "free", !.plane = plane, !.src = buf]

(***************************************************************************)
(* avifImageScale, built with AVIF_LIBYUV_ENABLED (lines 34-148).          *)
(***************************************************************************)
LIBYUV_MAX_DIM == 16384

Return(value, message) ==
    /\ result' = value
    /\ diag' = message
    /\ pc' = "done"

Goto(label) ==
    /\ pc' = label
    /\ UNCHANGED <<result, diag>>

\* The caller invokes avifImageScale(image, dstWidth, dstHeight, imageSizeLimit).
Call ==
    /\ pc = "idle"
    /\ \E dw \in DstDims, dh \in DstDims, lim \in Limits :
          args' = [dstWidth |-> dw, dstHeight |-> dh, imageSizeLimit |-> lim]
    /\ entry' = image
    /\ Goto("check_same")
    /\ UNCHANGED <<image, loc, released, log, nextBuf>>

\* CheckSame with width and height compared crosswise
CheckSameSwapped ==
    /\ pc = "check_same"
    /\ IF image.width = args.dstHeight /\ image.height = args.dstWidth
       THEN Return(TRUE, "")
       ELSE Goto("check_zero")
    /\ UNCHANGED <<image, args, loc, released, log, nextBuf, entry>>

\* lines 36-39
CheckSame ==
    /\ pc = "check_same"
    /\ IF image.width = args.dstWidth /\ image.height = args.dstHeight
       THEN Return(TRUE, "")
       ELSE Goto("check_zero")
    /\ UNCHANGED <<image, args, loc, released, log, nextBuf, entry>>

\* CheckZero without the test of dstHeight
CheckZeroWidthOnly ==
    /\ pc = "check_zero"
    /\ IF IsZero(args.dstWidth)
       THEN Return(FALSE, "avifImageScale requested invalid dst dimensions")
       ELSE Goto("check_limit")
    /\ UNCHANGED <<image, args, loc, released, log, nextBuf, entry>>

\* lines 41-44
CheckZero ==
    /\ pc = "check_zero"
    /\ IF IsZero(args.dstWidth) \/ IsZero(args.dstHeight)
       THEN Return(FALSE, "avifImageScale requested invalid dst dimensions")
       ELSE Goto("check_limit")
    /\ UNCHANGED <<image, args, loc, released, log, nextBuf, entry>>

\* LimitExceeded as dstWidth * dstHeight > imageSizeLimit, in uint32_t
LimitExceededByProduct(dstWidth, dstHeight, imageSizeLimit) ==
    GtU32(MulU32(dstWidth, dstHeight), imageSizeLimit)

\* line 45: dstWidth > (imageSizeLimit / dstHeight)
LimitExceeded(dstWidth, dstHeight, imageSizeLimit) ==
    GtU32(dstWidth, DivU32(imageSizeLimit, dstHeight))

\* What line 45 can do.  A division by zero is undefined: the build may trap
\* or deliver any quotient, so the test may go either way.
LimitOutcomes ==
    IF IsZero(args.dstHeight) THEN {"trap", "too_large", "fits"}
    ELSE IF LimitExceeded(args.dstWidth, args.dstHeight, args.imageSizeLimit)
         THEN {"too_large"}
         ELSE {"fits"}

\* lines 45-48
CheckLimit ==
    /\ pc = "check_limit"
    /\ \E o \in LimitOutcomes :
          CASE o = "trap" -> Goto("trap")
            [] o = "too_large" ->
                 Return(FALSE, "avifImageScale requested dst dimensions that are too large")
            [] o = "fits" -> Goto("detach")
    /\ UNCHANGED <<image, args, loc, released, log, nextBuf, entry>>

\* lines 50-71: the planes, strides, ownership flags and dimensions move to
\* the locals, and the image declares the destination dimensions.
Detach ==
    /\ pc = "detach"
    /\ loc' = [loc EXCEPT
                 !.srcYUVPlanes = image.yuvPlanes,
                 !.srcYUVRowBytes = image.yuvRowBytes,
                 !.srcImageOwnsYUVPlanes = image.imageOwnsYUVPlanes,
                 !.srcAlphaPlane = image.alphaPlane,
                 !.srcAlphaRowBytes = image.alphaRowBytes,
                 !.srcImageOwnsAlphaPlane = image.imageOwnsAlphaPlane,
                 !.srcWidth = image.width,
                 !.srcHeight = image.height]
    /\ image' = [image EXCEPT
                 !.yuvPlanes = [i \in Chans |-> NULL],
                 !.yuvRowBytes = [i \in Chans |-> U32(0)],
                 !.imageOwnsYUVPlanes = FALSE,
                 !.alphaPlane = NULL,
                 !.alphaRowBytes = U32(0),
                 !.imageOwnsAlphaPlane = FALSE,
                 !.width = args.dstWidth,
                 !.height = args.dstHeight]
    /\ Goto("check_source")
    /\ UNCHANGED <<args, released, log, nextBuf, entry>>

\* CheckSource with >= in place of >
CheckSourceInclusive ==
    /\ pc = "check_source"
    /\ IF loc.srcYUVPlanes[0] # NULL \/ loc.srcAlphaPlane # NULL
       THEN IF ~LtU32(loc.srcWidth, U32(LIBYUV_MAX_DIM))
            THEN Return(FALSE, "avifImageScale requested invalid width scale for libyuv")
            ELSE IF ~LtU32(loc.srcHeight, U32(LIBYUV_MAX_DIM))
                 THEN Return(FALSE, "avifImageScale requested invalid height scale for libyuv")
                 ELSE Goto("yuv")
       ELSE Goto("yuv")
    /\ UNCHANGED <<image, args, loc, released, log, nextBuf, entry>>

\* lines 73-84
CheckSource ==
    /\ pc = "check_source"
    /\ IF loc.srcYUVPlanes[0] # NULL \/ loc.srcAlphaPlane # NULL
       THEN IF GtU32(loc.srcWidth, U32(LIBYUV_MAX_DIM))
            THEN Return(FALSE, "avifImageScale requested invalid width scale for libyuv")
            ELSE IF GtU32(loc.srcHeight, U32(LIBYUV_MAX_DIM))
                 THEN Return(FALSE, "avifImageScale requested invalid height scale for libyuv")
                 ELSE Goto("yuv")
       ELSE Goto("yuv")
    /\ UNCHANGED <<image, args, loc, released, log, nextBuf, entry>>

\* lines 86-94 and the loop initialisation of line 96
BeginYUV ==
    /\ pc = "yuv"
    /\ IF loc.srcYUVPlanes[0] # NULL
       THEN /\ image' = AllocateYUV(image, nextBuf)
            /\ nextBuf' = nextBuf + AVIF_PLANE_COUNT_YUV
            /\ log' = Append(log, AllocCall("YUV", image))
            /\ loc' = [loc EXCEPT
                 !.srcUVWidth = ChromaDim(loc.srcWidth, ChromaShiftX(image.yuvFormat)),
                 !.srcUVHeight = ChromaDim(loc.srcHeight, ChromaShiftY(image.yuvFormat)),
                 !.dstUVWidth = ChromaDim(args.dstWidth, ChromaShiftX(image.yuvFormat)),
                 !.dstUVHeight = ChromaDim(args.dstHeight, ChromaShiftY(image.yuvFormat)),
                 !.i = 0]
            /\ Goto("yuv_loop")
       ELSE /\ Goto("alpha")
            /\ UNCHANGED <<image, nextBuf, log, loc>>
    /\ UNCHANGED <<args, released, entry>>

\* lines 96-99: the loop test and the skip of an absent plane
LoopYUV ==
    /\ pc = "yuv_loop"
    /\ IF loc.i >= AVIF_PLANE_COUNT_YUV
       THEN Goto("alpha") /\ UNCHANGED loc
       ELSE IF loc.srcYUVPlanes[loc.i] = NULL
            THEN Goto("yuv_loop") /\ loc' = [loc EXCEPT !.i = loc.i + 1]
            ELSE Goto("yuv_scale") /\ UNCHANGED loc
    /\ UNCHANGED <<image, args, released, log, nextBuf, entry>>

\* lines 101-117
ScaleYUV ==
    /\ pc = "yuv_scale"
    /\ LET i == loc.i
           srcW == IF i = AVIF_CHAN_Y THEN loc.srcWidth ELSE loc.srcUVWidth
           srcH == IF i = AVIF_CHAN_Y THEN loc.srcHeight ELSE loc.srcUVHeight
           dstW == IF i = AVIF_CHAN_Y THEN args.dstWidth ELSE loc.dstUVWidth
           dstH == IF i = AVIF_CHAN_Y THEN args.dstHeight ELSE loc.dstUVHeight
       IN  log' = Append(log,
             IF image.depth > 8
             THEN ScaleCall(PlaneName(i), 16,
                            loc.srcYUVPlanes[i], ShrU32(loc.srcYUVRowBytes[i], 1), srcW, srcH,
                            image.yuvPlanes[i], ShrU32(image.yuvRowBytes[i], 1), dstW, dstH)
             ELSE ScaleCall(PlaneName(i), 8,
                            loc.srcYUVPlanes[i], loc.srcYUVRowBytes[i], srcW, srcH,
                            image.yuvPlanes[i], image.yuvRowBytes[i], dstW, dstH))
    /\ Goto("yuv_free")
    /\ UNCHANGED <<image, args, loc, released, nextBuf, entry>>

\* FreeYUV without the test of srcImageOwnsYUVPlanes
FreeYUVAlways ==
    /\ pc = "yuv_free"
    /\ released' = [released EXCEPT ![loc.srcYUVPlanes[loc.i]] = @ + 1]
    /\ log' = Append(log, FreeCall(PlaneName(loc.i), loc.srcYUVPlanes[loc.i]))
    /\ loc' = [loc EXCEPT !.i = loc.i + 1]
    /\ Goto("yuv_loop")
    /\ UNCHANGED <<image, args, nextBuf, entry>>

\* FreeYUV releasing srcYUVPlanes[0] in every iteration
FreeYUVFirstPlane ==
    /\ pc = "yuv_free"
    /\ IF loc.srcImageOwnsYUVPlanes
       THEN /\ released' = [released EXCEPT ![loc.srcYUVPlanes[0]] = @ + 1]
            /\ log' = Append(log, FreeCall(PlaneName(0), loc.srcYUVPlanes[0]))
       ELSE UNCHANGED <<released, log>>
    /\ loc' = [loc EXCEPT !.i = loc.i + 1]
    /\ Goto("yuv_loop")
    /\ UNCHANGED <<image, args, nextBuf, entry>>

\* lines 119-122, and the ++i of line 96
FreeYUV ==
    /\ pc = "yuv_free"
    /\ IF loc.srcImageOwnsYUVPlanes
       THEN /\ released' = [released EXCEPT ![loc.srcYUVPlanes[loc.i]] = @ + 1]
            /\ log' = Append(log, FreeCall(PlaneName(loc.i), loc.srcYUVPlanes[loc.i]))
       ELSE UNCHANGED <<released, log>>
    /\ loc' = [loc EXCEPT !.i = loc.i + 1]
    /\ Goto("yuv_loop")
    /\ UNCHANGED <<image, args, nextBuf, entry>>

\* BeginAlpha testing the luma plane in place of the alpha plane
BeginAlphaIfYUV ==
    /\ pc = "alpha"
    /\ IF loc.srcYUVPlanes[0] # NULL
       THEN /\ image' = AllocateAlpha(image, nextBuf)
            /\ nextBuf' = nextBuf + 1
            /\ log' = Append(log, AllocCall("A", image))
            /\ Goto("alpha_scale")
       ELSE /\ Goto("return")
            /\ UNCHANGED <<image, nextBuf, log>>
    /\ UNCHANGED <<args, loc, released, entry>>

\* lines 125-126
BeginAlpha ==
    /\ pc = "alpha"
    /\ IF loc.srcAlphaPlane # NULL
       THEN /\ image' = AllocateAlpha(image, nextBuf)
            /\ nextBuf' = nextBuf + 1
            /\ log' = Append(log, AllocCall("A", image))
            /\ Goto("alpha_scale")
       ELSE /\ Goto("return")
            /\ UNCHANGED <<image, nextBuf, log>>
    /\ UNCHANGED <<args, loc, released, entry>>

\* lines 128-140
ScaleAlpha ==
    /\ pc = "alpha_scale"
    /\ log' = Append(log,
         IF image.depth > 8
         THEN ScaleCall("A", 16,
                        loc.srcAlphaPlane, ShrU32(loc.srcAlphaRowBytes, 1),
                        loc.srcWidth, loc.srcHeight,
                        image.alphaPlane, ShrU32(image.alphaRowBytes, 1),
                        args.dstWidth, args.dstHeight)
         ELSE ScaleCall("A", 8,
                        loc.srcAlphaPlane, loc.srcAlphaRowBytes,
                        loc.srcWidth, loc.srcHeight,
                        image.alphaPlane, image.alphaRowBytes,
                        args.dstWidth, args.dstHeight))
    /\ Goto("alpha_free")
    /\ UNCHANGED <<image, args, loc, released, nextBuf, entry>>

\* lines 142-145
FreeAlpha ==
    /\ pc = "alpha_free"
    /\ IF loc.srcImageOwnsAlphaPlane
       THEN /\ released' = [released EXCEPT ![loc.srcAlphaPlane] = @ + 1]
            /\ log' = Append(log, FreeCall("A", loc.srcAlphaPlane))
       ELSE UNCHANGED <<released, log>>
    /\ Goto("return")
    /\ UNCHANGED <<image, args, loc, nextBuf, entry>>

\* line 147
ReturnTrue ==
    /\ pc = "return"
    /\ Return(TRUE, "")
    /\ UNCHANGED <<image, args, loc, released, log, nextBuf, entry>>

Next ==
    \/ Call
    \/ CheckSame
    \/ CheckZero
    \/ CheckLimit
    \/ Detach
    \/ CheckSource
    \/ BeginYUV
    \/ LoopYUV
    \/ ScaleYUV
    \/ FreeYUV
    \/ BeginAlpha
    \/ ScaleAlpha
    \/ FreeAlpha
    \/ ReturnTrue

Spec == Init /\ [][Next]_vars

(***************************************************************************)
(* avifImageScale, built without AVIF_LIBYUV_ENABLED (lines 8-16).         *)
(***************************************************************************)
\* Unimplemented with the no-op test of the libyuv build in front
UnimplementedAfterSameCheck ==
    /\ pc = "idle"
    /\ \E dw \in DstDims, dh \in DstDims, lim \in Limits :
          /\ args' = [dstWidth |-> dw, dstHeight |-> dh, imageSizeLimit |-> lim]
          /\ IF image.width = dw /\ image.height = dh
             THEN Return(TRUE, "")
             ELSE Return(FALSE, "avifImageScale() called, but is unimplemented without libyuv!")
    /\ entry' = image
    /\ UNCHANGED <<image, loc, released, log, nextBuf>>

Unimplemented ==
    /\ pc = "idle"
    /\ \E dw \in DstDims, dh \in DstDims, lim \in Limits :
          args' = [dstWidth |-> dw, dstHeight |-> dh, imageSizeLimit |-> lim]
    /\ entry' = image
    /\ Return(FALSE, "avifImageScale() called, but is unimplemented without libyuv!")
    /\ UNCHANGED <<image, loc, released, log, nextBuf>>

NextNoLibyuv == Unimplemented

SpecNoLibyuv == Init /\ [][NextNoLibyuv]_vars

(***************************************************************************)
(* Vocabulary of the properties.                                           *)
(***************************************************************************)
Returned == pc = "done"

InCall == pc \notin {"idle", "done"}

\* The request names the image's own dimensions.
SameDims == args.dstWidth = entry.width /\ args.dstHeight = entry.height

ZeroDims == IsZero(args.dstWidth) \/ IsZero(args.dstHeight)

NothingCalled == log = <<>> /\ \A b \in Buffers : released[b] = 0

\* Buffers, strides, ownership flags, width and height are as on entry.
ImageUntouched == image = entry

ImageStripped ==
    /\ \A i \in Chans : image.yuvPlanes[i] = NULL /\ IsZero(image.yuvRowBytes[i])
    /\ image.alphaPlane = NULL /\ IsZero(image.alphaRowBytes)
    /\ ~image.imageOwnsYUVPlanes /\ ~image.imageOwnsAlphaPlane

InvalidDimensions == "avifImageScale requested invalid dst dimensions"

DimensionsExceedLimit == "avifImageScale requested dst dimensions that are too large"

SourceDimensionsTooLarge ==
    {"avifImageScale requested invalid width scale for libyuv",
     "avifImageScale requested invalid height scale for libyuv"}

BackendUnavailable == "avifImageScale() called, but is unimplemented without libyuv!"

\* w * h > l, over the integers
TrueProductExceeds(w, h, l) ==
    LET p == ProductDigits(Digits(w), Digits(h), 0, 0)
    IN  \/ \E k \in 5 .. 8 : p[k] # 0
        \/ GtU32(MulU32(w, h), l)

\* The request passes the three checks of lines 36-48.
PassesValidation ==
    /\ ~SameDims
    /\ ~ZeroDims
    /\ ~TrueProductExceeds(args.dstWidth, args.dstHeight, args.imageSizeLimit)

\* A call that went through the scaling code and returned success.
ScalingSucceeded == Returned /\ result = TRUE /\ ~SameDims

YUVPresentOnEntry == entry.yuvPlanes[AVIF_CHAN_Y] # NULL

AlphaPresentOnEntry == entry.alphaPlane # NULL

\* A buffer the allocator handed out during the call and nobody released.
Fresh(b) ==
    /\ b \in FirstFreshBuffer .. (nextBuf - 1)
    /\ b \notin {entry.yuvPlanes[i] : i \in Chans} \cup {entry.alphaPlane}
    /\ released[b] = 0

Calls(op) == {k \in 1 .. Len(log) : log[k].op = op}

(***************************************************************************)
(* Properties.                                                             *)
(***************************************************************************)

\* C1. No-op identity: a call that names the image's current width and height
\* never leaves the first test, returns success, and leaves every plane
\* buffer, stride, ownership flag, width and height as they were; no
\* allocator, resampler or release call is made.
NoOpIdentity ==
    (pc # "idle" /\ SameDims) =>
        /\ pc \in {"check_same", "done"}
        /\ ImageUntouched
        /\ NothingCalled
        /\ Returned => (result = TRUE /\ diag = "")

NoOpIdentityWitness ==
    /\ Returned /\ SameDims /\ result = TRUE
    /\ YUVPresentOnEntry /\ entry.imageOwnsYUVPlanes
    /\ AlphaPresentOnEntry

\* C2. Ownership transfer: after a call that scaled and returned success, every
\* luma/chroma buffer of an image that owned its luma/chroma planes has been
\* released (once), and the image holds fresh buffers in their place and owns
\* them; the buffers of an image that did not own them are never released, in
\* any state of the call, whatever it returns.  The same for the alpha plane.
OwnershipTransfer ==
    /\ (ScalingSucceeded /\ entry.imageOwnsYUVPlanes /\ YUVPresentOnEntry) =>
          /\ image.imageOwnsYUVPlanes
          /\ \A i \in Chans : entry.yuvPlanes[i] # NULL =>
                /\ released[entry.yuvPlanes[i]] = 1
                /\ Fresh(image.yuvPlanes[i])
    /\ ~entry.imageOwnsYUVPlanes =>
          \A i \in Chans : entry.yuvPlanes[i] # NULL => released[entry.yuvPlanes[i]] = 0
    /\ (ScalingSucceeded /\ entry.imageOwnsAlphaPlane /\ AlphaPresentOnEntry) =>
          /\ image.imageOwnsAlphaPlane
          /\ released[entry.alphaPlane] = 1
          /\ Fresh(image.alphaPlane)
    /\ ~entry.imageOwnsAlphaPlane =>
          (AlphaPresentOnEntry => released[entry.alphaPlane] = 0)

OwnershipTransferWitness ==
    /\ ScalingSucceeded
    /\ YUVPresentOnEntry /\ entry.imageOwnsYUVPlanes
    /\ AlphaPresentOnEntry /\ ~entry.imageOwnsAlphaPlane
    /\ released[entry.yuvPlanes[AVIF_CHAN_Y]] = 1
    /\ released[entry.alphaPlane] = 0

\* C3. Zero-dimension rejection: a call with dstWidth = 0 or dstHeight = 0 on
\* an image of non-zero width and height fails with the invalid-dimensions
\* diagnostic and never mutates the image, and the division of line 45 is never
\* reached with dstHeight = 0.
ZeroDimensionRejected ==
    /\ (pc # "idle" /\ ZeroDims /\ ~IsZero(entry.width) /\ ~IsZero(entry.height)) =>
          /\ pc \in {"check_same", "check_zero", "done"}
          /\ ImageUntouched
          /\ NothingCalled
          /\ Returned => (result = FALSE /\ diag = InvalidDimensions)
    /\ pc = "check_limit" => ~IsZero(args.dstHeight)
    /\ pc # "trap"

ZeroDimensionRejectedWitness ==
    /\ Returned /\ IsZero(args.dstHeight) /\ ~IsZero(args.dstWidth)
    /\ result = FALSE /\ diag = InvalidDimensions
    /\ YUVPresentOnEntry

\* C4. Limit enforcement: a call with non-zero destination dimensions that
\* differ from the image's fails with the too-large diagnostic exactly when the
\* unbounded product dstWidth * dstHeight is greater than imageSizeLimit, and
\* on that failure the image is not mutated.
LimitEnforced ==
    (Returned /\ ~SameDims /\ ~ZeroDims) =>
        /\ (result = FALSE /\ diag = DimensionsExceedLimit)
              <=> TrueProductExceeds(args.dstWidth, args.dstHeight, args.imageSizeLimit)
        /\ diag = DimensionsExceedLimit => (ImageUntouched /\ NothingCalled)

LimitEnforcedWitness ==
    /\ Returned
    /\ args.dstWidth = U32(100) /\ args.dstHeight = U32(100)
    /\ args.imageSizeLimit = U32(9999)
    /\ result = FALSE /\ diag = DimensionsExceedLimit

\* C5. Source-size guard: a request that passed validation on an image with a
\* plane present fails with a source-dimension diagnostic if the source width
\* or height is greater than 16384; the image then has no plane buffers,
\* strides 0, both ownership flags cleared and the destination width and
\* height, and nothing was allocated, resampled or released.  With both source
\* dimensions at most 16384 (or no plane present) this failure never occurs.
SourceGuard ==
    /\ (Returned /\ PassesValidation /\ (YUVPresentOnEntry \/ AlphaPresentOnEntry)
          /\ (GtU32(entry.width, U32(16384)) \/ GtU32(entry.height, U32(16384)))) =>
          /\ result = FALSE
          /\ diag \in SourceDimensionsTooLarge
          /\ ImageStripped
          /\ image.width = args.dstWidth /\ image.height = args.dstHeight
          /\ NothingCalled
    /\ diag \in SourceDimensionsTooLarge =>
          /\ GtU32(entry.width, U32(16384)) \/ GtU32(entry.height, U32(16384))
          /\ YUVPresentOnEntry \/ AlphaPresentOnEntry
          /\ PassesValidation

SourceGuardWitness ==
    /\ Returned /\ result = FALSE
    /\ diag = "avifImageScale requested invalid height scale for libyuv"
    /\ entry.width = U32(16384)
    /\ AlphaPresentOnEntry /\ ~YUVPresentOnEntry

\* C6. Backend-unavailable fallback (build without libyuv): every call, also
\* one that names the image's current dimensions, fails with the unimplemented
\* diagnostic, and no buffer, stride, ownership flag, width or height changes.
BackendUnavailableFallback ==
    Returned =>
        /\ result = FALSE
        /\ diag = BackendUnavailable
        /\ ImageUntouched
        /\ NothingCalled

BackendUnavailableWitness ==
    /\ Returned /\ SameDims /\ result = FALSE
    /\ YUVPresentOnEntry

\* C7. Single-owner buffer discipline: in every state of the call and after it
\* returns, a buffer the image owned on entry is released at most once, and
\* while unreleased it has exactly one owner: the image or the locals of
\* avifImageScale (which exist only during the call).
EntryOwned ==
    {b \in Buffers :
        \/ entry.imageOwnsYUVPlanes /\ \E i \in Chans : entry.yuvPlanes[i] = b
        \/ entry.imageOwnsAlphaPlane /\ entry.alphaPlane = b}

ImageOwns(b) ==
    \/ image.imageOwnsYUVPlanes /\ \E i \in Chans : image.yuvPlanes[i] = b
    \/ image.imageOwnsAlphaPlane /\ image.alphaPlane = b

LocalsHold(b) ==
    /\ InCall
    /\ \/ loc.srcImageOwnsYUVPlanes /\ \E i \in Chans : loc.srcYUVPlanes[i] = b
       \/ loc.srcImageOwnsAlphaPlane /\ loc.srcAlphaPlane = b

SingleOwner ==
    \A b \in EntryOwned :
        /\ released[b] <= 1
        /\ released[b] = 0 => (ImageOwns(b) # LocalsHold(b))

\* C8. Alpha independence: after a call that scaled and returned success, the
\* allocator and the resampler were invoked for a plane group exactly if the
\* group was present on entry (the resampler for exactly the planes present),
\* and a group absent on entry is absent after the call (buffer absent, stride
\* 0) with nothing of it released.
AlphaIndependence ==
    ScalingSucceeded =>
        /\ (\E k \in Calls("alloc") : log[k].plane = "YUV") <=> YUVPresentOnEntry
        /\ (\E k \in Calls("alloc") : log[k].plane = "A") <=> AlphaPresentOnEntry
        /\ \A i \in Chans :
              (\E k \in Calls("scale") : log[k].plane = PlaneName(i))
                  <=> entry.yuvPlanes[i] # NULL
        /\ (\E k \in Calls("scale") : log[k].plane = "A") <=> AlphaPresentOnEntry
        /\ ~YUVPresentOnEntry =>
              /\ \A i \in Chans : image.yuvPlanes[i] = NULL /\ IsZero(image.yuvRowBytes[i])
              /\ \A k \in Calls("free") : log[k].plane = "A"
        /\ ~AlphaPresentOnEntry =>
              /\ image.alphaPlane = NULL /\ IsZero(image.alphaRowBytes)
              /\ \A k \in Calls("free") : log[k].plane # "A"

AlphaIndependenceWitness ==
    /\ ScalingSucceeded
    /\ ~YUVPresentOnEntry /\ AlphaPresentOnEntry
    /\ Len(log) = 3
    /\ image.alphaPlane # NULL

\* C9. Chroma dimension rounding: every resampler call for a chroma plane is
\* passed source and destination width and height equal to the luma dimension
\* divided by 2^shift, rounded up; the luma and alpha calls are passed the
\* unshifted dimensions.
CeilShift(dim, shift) ==
    AddU32(ShrU32(dim, shift), IF dim[2] % (2 ^ shift) # 0 THEN 1 ELSE 0)

ChromaRounding ==
    \A k \in Calls("scale") :
        LET c == log[k]
            sx == IF c.plane \in {"U", "V"} THEN ChromaShiftX(entry.yuvFormat) ELSE 0
            sy == IF c.plane \in {"U", "V"} THEN ChromaShiftY(entry.yuvFormat) ELSE 0
        IN  /\ c.srcW = CeilShift(entry.width, sx)
            /\ c.srcH = CeilShift(entry.height, sy)
            /\ c.dstW = CeilShift(args.dstWidth, sx)
            /\ c.dstH = CeilShift(args.dstHeight, sy)

\* C10. Release ordering: a source buffer is released only after the resampler
\* call that reads it, no resampler call reads a released buffer, no buffer is
\* released twice, and every resampler call writes a buffer other than its
\* source that the allocator handed out before the call, when the image already
\* declared the destination dimensions.
ReleaseOrdering ==
    /\ \A k \in Calls("free") :
          /\ \E j \in Calls("scale") : j < k /\ log[j].src = log[k].src
          /\ \A j \in Calls("scale") : log[j].src = log[k].src => j < k
          /\ \A j \in Calls("free") : log[j].src = log[k].src => j = k
    /\ \A b \in Buffers : released[b] <= 1
    /\ \A k \in Calls("scale") :
          /\ log[k].src # NULL
          /\ log[k].dst # NULL
          /\ log[k].dst # log[k].src
          /\ Fresh(log[k].dst)
          /\ \E j \in Calls("alloc") :
                /\ j < k
                /\ log[j].plane = (IF log[k].plane = "A" THEN "A" ELSE "YUV")
                /\ log[j].dstW = args.dstWidth /\ log[j].dstH = args.dstHeight

ReleaseOrderingWitness ==
    /\ Returned /\ result = TRUE
    /\ Cardinality(Calls("free")) = AVIF_PLANE_COUNT_YUV + 1
    /\ Cardinality(Calls("scale")) = AVIF_PLANE_COUNT_YUV + 1

=============================================================================
